---------------------------- MODULE Spec2Model ----------------------------
(***************************************************************************)
(* A model of the gather_cfp pipeline: the listing scraper of              *)
(* src/src/gather_events.py (table extraction, pagination, detail pages)   *)
(* and the ranking enrichment of src/src/rate_events.py (resolver, cache,  *)
(* enrichment loop).                                                       *)
(*                                                                         *)
(* Texts are sequences of tokens (a token stands for one character or one  *)
(* indivisible word such as a month name), so that split, strip and the    *)
(* date parser are computed and not assumed.                               *)
(***************************************************************************)
EXTENDS Integers, Sequences, FiniteSets, TLC

(***************************************************************************)
(* Bounds of the model.                                                    *)
(***************************************************************************)
\* data rows after the header row of a listing table
MaxRows == 4
\* pages of the listing site
MaxPages == 3
\* largest configured MAX_PAGES
MaxCeiling == 3
\* records handed to enrich_conferences
MaxConfs == 3
\* tokens before and after the core of a deadline text
MaxPad == 2

(***************************************************************************)
(* Text helpers: str.strip() and str.split().                              *)
(***************************************************************************)
NA == <<"N", "/", "A">>

IsSpace(c) == c = " "

RECURSIVE LStrip(_)
LStrip(s) ==
    IF s = <<>> THEN s
    ELSE IF IsSpace(Head(s)) THEN LStrip(Tail(s)) ELSE s

RECURSIVE RStrip(_)
RStrip(s) ==
    IF s = <<>> THEN s
    ELSE IF IsSpace(s[Len(s)]) THEN RStrip(SubSeq(s, 1, Len(s) - 1)) ELSE s

\* str.strip()
Strip(s) == RStrip(LStrip(s))

\* s.split(sep)[0]: the text before the first separator token
RECURSIVE SplitHead(_, _)
SplitHead(s, sep) ==
    IF s = <<>> THEN <<>>
    ELSE IF Head(s) = sep THEN <<>>
    ELSE <<Head(s)>> \o SplitHead(Tail(s), sep)

\* len(s.split(sep)): one more than the number of separators
RECURSIVE SplitCount(_, _)
SplitCount(s, sep) ==
    IF s = <<>> THEN 1
    ELSE (IF Head(s) = sep THEN 1 ELSE 0) + SplitCount(Tail(s), sep)

(***************************************************************************)
(* format_deadline: datetime.strptime(s, '%b %d, %Y') and                  *)
(* strftime('%d/%m/%y').  A blank of the format matches one or more        *)
(* blanks; the whole text must match; an impossible day raises ValueError. *)
(***************************************************************************)
Months == {"Jan", "Feb"}
Days == {"5", "05", "31"}
Years == {"2025"}

MonthNum(m) == IF m = "Jan" THEN "01" ELSE "02"
DayNum(d) == IF d = "31" THEN "31" ELSE "05"
YearShort(y) == "25"
DaysIn(m) == IF m = "Jan" THEN {"5", "05", "31"} ELSE {"5", "05"}

\* <<TRUE, month, day, year>> when s parses, <<FALSE>> on ValueError
Strptime(s) ==
    IF s = <<>> \/ Head(s) \notin Months THEN <<FALSE>>
    ELSE LET r1 == Tail(s)
             r2 == LStrip(r1)
         IN  IF r2 = r1 \/ r2 = <<>> \/ Head(r2) \notin Days THEN <<FALSE>>
             ELSE LET r3 == Tail(r2)
                  IN  IF r3 = <<>> \/ Head(r3) # "," THEN <<FALSE>>
                      ELSE LET r4 == Tail(r3)
                               r5 == LStrip(r4)
                           IN  IF r5 = r4 \/ Len(r5) # 1 \/ Head(r5) \notin Years
                                    \/ Head(r2) \notin DaysIn(Head(s))
                               THEN <<FALSE>>
                               ELSE <<TRUE, Head(s), Head(r2), Head(r5)>>

Strftime(p) == <<DayNum(p[3]), "/", MonthNum(p[2]), "/", YearShort(p[4])>>

\* strip() applied before split('(') instead of after it
format_deadline_StripFirst(deadline_str) ==
    IF deadline_str = NA THEN deadline_str
    ELSE LET s == SplitHead(Strip(deadline_str), "(")
             p == Strptime(s)
         IN  IF p[1] THEN Strftime(p) ELSE s

format_deadline(deadline_str) ==
    IF deadline_str = NA THEN deadline_str
    ELSE LET s == Strip(SplitHead(deadline_str, "("))
             p == Strptime(s)
         IN  IF p[1] THEN Strftime(p) ELSE s

(***************************************************************************)
(* A listing table as Selenium shows it: whether the table with the        *)
(* "Event" header was located, and its rows.  A row is its <td> cells; a   *)
(* cell has a text and, when it holds a link, the link's text and href.    *)
(* A stale row raises on any access.                                       *)
(***************************************************************************)
NoHref == <<>>

Cell(t) == [text |-> t, atext |-> <<>>, href |-> NoHref]
LinkCell(t, h) == [text |-> t, atext |-> t, href |-> h]
Row(cs) == [cells |-> cs, stale |-> FALSE]
StaleRow == [cells |-> <<>>, stale |-> TRUE]

HeaderRow == Row(<<Cell(<<"Event">>), Cell(<<"When">>), Cell(<<"Where">>), Cell(<<"Deadline">>)>>)

EvName(i) == <<"ev", ToString(i)>>
EvHref(i) == <<"http://cfp/", ToString(i)>>
Descr(i) == <<" ", "about", ToString(i)>>
RawDeadline == <<"Jan", " ", "5", ",", " ", "2025", " ", "(", "UTC", ")">>

RowKinds == {"name", "plain", "info", "infoNA", "short", "stale"}

\* the data row of the given kind at (0-based) row index i
MkRow(kind, i) ==
    CASE kind = "name"   -> Row(<<LinkCell(EvName(i), EvHref(i)), Cell(Descr(i))>>)
      [] kind = "plain"  -> Row(<<Cell(EvName(i)), Cell(Descr(i))>>)
      [] kind = "info"   -> Row(<<Cell(<<"Jun">>), Cell(<<"Paris">>), Cell(RawDeadline)>>)
      [] kind = "infoNA" -> Row(<<Cell(<<"TBD">>), Cell(<<"Online">>), Cell(<<"TBD">>)>>)
      [] kind = "short"  -> Row(<<Cell(EvName(i))>>)
      [] OTHER           -> StaleRow

\* a header row and the data rows of the given kinds, numbered from base + 1
MkRowsAt(kinds, base) == <<HeaderRow>> \o [i \in 1..Len(kinds) |-> MkRow(kinds[i], base + i)]

MkRows(kinds) == MkRowsAt(kinds, 0)

SeqsUpTo(S, n) == UNION {[1..k -> S] : k \in 0..n}

(***************************************************************************)
(* process_data_table                                                      *)
(***************************************************************************)
\* rows[i] with the code's 0-based index
At(rows, i) == rows[i + 1]

\* one iteration of the loop over range(1, len(rows), 2): the records it
\* appends (one, or none after `continue`)
ExtractRecord(rows, i) ==
    LET row1 == At(rows, i)
        cells1 == row1.cells
    IN  IF row1.stale THEN <<>>                       \* outer except: continue
        ELSE IF Len(cells1) < 2 THEN <<>>             \* insufficient cells: continue
        ELSE
          LET hasLink == cells1[1].href # NoHref
              event_name == IF hasLink THEN Strip(cells1[1].atext) ELSE Strip(cells1[1].text)
              event_link == IF hasLink THEN cells1[1].href ELSE NA
              description == IF Len(cells1) >= 2 THEN Strip(cells1[2].text) ELSE NA
              hasRow2 == i + 1 < Len(rows)
              row2 == IF hasRow2 THEN At(rows, i + 1) ELSE StaleRow
              full2 == hasRow2 /\ ~row2.stale /\ Len(row2.cells) >= 3
          IN  IF hasRow2 /\ row2.stale THEN <<>>      \* outer except: continue
              ELSE <<[event_name |-> event_name,
                      description |-> description,
                      link |-> event_link,
                      when |-> IF full2 THEN Strip(row2.cells[1].text) ELSE NA,
                      where |-> IF full2 THEN Strip(row2.cells[2].text) ELSE NA,
                      deadline |-> IF full2 THEN format_deadline(Strip(row2.cells[3].text))
                                   ELSE NA]>>

\* for i in range(from, len(rows), 2)
RECURSIVE ExtractFrom(_, _)
ExtractFrom(rows, i) ==
    IF i >= Len(rows) THEN <<>>
    ELSE ExtractRecord(rows, i) \o ExtractFrom(rows, i + 2)

\* the row-count guard left out
process_data_table_NoGuard(tbl) ==
    IF ~tbl.found THEN <<>>
    ELSE ExtractFrom(tbl.rows, 1)

\* the row-count guard written with the wrong threshold
process_data_table_Threshold(tbl) ==
    IF ~tbl.found THEN <<>>
    ELSE IF Len(tbl.rows) <= 3 THEN <<>>
    ELSE ExtractFrom(tbl.rows, 1)

process_data_table(tbl) ==
    IF ~tbl.found THEN <<>>                           \* wait timed out
    ELSE IF Len(tbl.rows) < 3 THEN <<>>               \* not enough rows
    ELSE ExtractFrom(tbl.rows, 1)


(***************************************************************************)
(* click_next_page and the listing site.  A site is a sequence of pages;   *)
(* each has a table and a "next" control that either works ("ok") or not   *)
(* ("none": no clickable link within the wait, or the click or the         *)
(* staleness wait raised).  Past the last page there is an empty page.     *)
(* A page holds one complete pair with a link ("one"), one without a link  *)
(* ("plainone"), a table of two rows ("tiny") or no table ("missing").     *)
(***************************************************************************)
PageKinds == {"one", "plainone", "missing", "tiny"}
NextKinds == {"ok", "none"}

MkTable(kind, p) ==
    CASE kind = "one"      -> [found |-> TRUE, rows |-> MkRowsAt(<<"name", "info">>, 10 * p)]
      [] kind = "plainone" -> [found |-> TRUE, rows |-> MkRowsAt(<<"plain", "infoNA">>, 10 * p)]
      [] kind = "tiny"     -> [found |-> TRUE, rows |-> MkRowsAt(<<"name">>, 10 * p)]
      [] OTHER             -> [found |-> FALSE, rows |-> <<>>]

EndPage == [table |-> [found |-> FALSE, rows |-> <<>>], next |-> "none"]

PageAt(st, p) == IF p <= Len(st) THEN st[p] ELSE EndPage

MkSite(kinds, nexts) ==
    [p \in 1..Len(kinds) |-> [table |-> MkTable(kinds[p], p), next |-> nexts[p]]]

Sites ==
    UNION {{MkSite(ks, ns) : ks \in [1..n -> PageKinds], ns \in [1..n -> NextKinds]} : n \in 1..MaxPages}

\* TRUE when the next page was loaded
click_next_page(st, p) == PageAt(st, p).next = "ok"

(***************************************************************************)
(* scrape_event_details and the merge {**event, **details}.                *)
(***************************************************************************)
Merge(a, b) == [k \in DOMAIN a \cup DOMAIN b |-> IF k \in DOMAIN b THEN b[k] ELSE a[k]]

\* "ok": a page with every element; "bare": a page with none of the optional
\* ones; "error": driver.get, the wait or page_source raises; "late_error": an
\* exception raised after the first five fields were stored
ScrapeOutcomes == {"ok", "bare", "error", "late_error"}

\* the <title> of the detail page behind a link
TitleOf(href) == <<"CFP", " ", href[2]>>

DetailKeys == <<"page_title", "meta_description", "detailed_deadline", "review_time",
                "conference_rank", "is_workshop", "minimum_pages", "website_link",
                "categories">>

\* int(pages_match.group(1))
ToInt(digits) == CHOOSE n \in 0..99 : ToString(n) = digits

\* what the browser gets at event_url: texts are <<>> where the page lacks them
DetailPage(event_url, outcome) ==
    IF outcome = "bare"
    THEN [loads |-> TRUE, raise_after |-> Len(DetailKeys),
          title |-> <<>>, browser_title |-> <<"WikiCFP">>, meta |-> <<>>,
          deadline |-> <<>>, review |-> <<>>, rank |-> <<>>, workshop |-> FALSE,
          pages |-> <<>>, link_td |-> FALSE, website |-> NoHref,
          has_h5 |-> FALSE, h5_links |-> <<>>]
    ELSE [loads |-> outcome # "error",
          raise_after |-> IF outcome = "late_error" THEN 5 ELSE Len(DetailKeys),
          title |-> TitleOf(event_url) \o <<" ">>, browser_title |-> TitleOf(event_url),
          meta |-> <<" ", "call", " ", "for", " ", "papers">>,
          deadline |-> <<"Jan", " ", "5", ",", " ", "2025", " ">>,
          review |-> <<"30", " ", "days">>, rank |-> <<"A">>, workshop |-> TRUE,
          pages |-> <<"8">>, link_td |-> TRUE, website |-> <<"http://conf/", event_url[2]>>,
          has_h5 |-> TRUE, h5_links |-> <<<<"Categories">>, <<"AI">>, <<"ML">>>>]

\* the links of the h5 heading whose text is not the label itself
RECURSIVE CategoryLinks(_)
CategoryLinks(links) ==
    IF links = <<>> THEN <<>>
    ELSE (IF \E j \in 1..Len(Head(links)) : Head(links)[j] = "Categories"
          THEN <<>> ELSE <<Strip(Head(links))>>) \o CategoryLinks(Tail(links))

\* the exception handler stores nothing
scrape_event_details_Silent(event_url, outcome) ==
    LET page == DetailPage(event_url, outcome)
    IN  IF page.loads /\ page.raise_after = Len(DetailKeys)
        THEN [page_title |-> Strip(page.title), meta_description |-> NA,
              detailed_deadline |-> NA, review_time |-> NA, conference_rank |-> NA,
              is_workshop |-> page.workshop, minimum_pages |-> NA, website_link |-> NA,
              categories |-> <<>>]
        ELSE <<>>

scrape_event_details(event_url, outcome) ==
    LET page == DetailPage(event_url, outcome)
        full == [page_title |-> IF page.title # <<>> THEN Strip(page.title)
                                ELSE page.browser_title,
                 meta_description |-> IF page.meta # <<>> THEN Strip(page.meta) ELSE NA,
                 detailed_deadline |-> IF page.deadline # <<>> THEN Strip(page.deadline) ELSE NA,
                 review_time |-> IF page.review # <<>> THEN Strip(page.review) ELSE NA,
                 conference_rank |-> IF page.rank # <<>> THEN Strip(page.rank) ELSE NA,
                 is_workshop |-> page.workshop,
                 minimum_pages |-> IF page.pages # <<>> THEN ToInt(page.pages[1]) ELSE NA,
                 website_link |-> IF page.link_td /\ page.website # NoHref
                                  THEN page.website ELSE NA,
                 categories |-> IF page.has_h5 THEN CategoryLinks(page.h5_links) ELSE <<>>]
        n == IF page.loads THEN page.raise_after ELSE 0
        stored == {DetailKeys[j] : j \in 1..n}
    IN  [k \in stored \cup (IF n < Len(DetailKeys) THEN {"error"} ELSE {}) |->
            IF k = "error" THEN <<"timeout">> ELSE full[k]]

(***************************************************************************)
(* get_core_ranking.  The portal's answer to one search is described by:   *)
(* whether driver.get(search_url) succeeds, which bounded wait (if any)    *)
(* times out, whether the table text holds "0 Results found.", and the     *)
(* result rows (tr.evenrow, tr.oddrow), each with its <td> texts and the   *)
(* href of the link in its sixth cell, if any.                             *)
(***************************************************************************)
DefaultResult ==
    [title |-> NA, acronym |-> NA, source |-> NA, rank |-> <<"Unranked">>, note |-> NA,
     dblp_link |-> NA, primary_for |-> NA, comments |-> NA, average_rating |-> NA,
     found |-> FALSE]

\* the fields read from td[1..5] and td[7..9], in the order the code reads them
ColumnOf == <<"title", "acronym", "source", "rank", "note", "dblp_link", "primary_for",
              "comments", "average_rating">>
ReadColumns == {1, 2, 3, 4, 5, 7, 8, 9}

\* a bug: each field stored as soon as its cell is read
ReadFirstRowFieldwise(result, first_row) ==
    LET n == Len(first_row.cells)
        complete == n >= 9
        r1 == [f \in DOMAIN result |->
                 IF f = "found" THEN complete
                 ELSE IF \E j \in ReadColumns : j <= n /\ ColumnOf[j] = f
                      THEN Strip(first_row.cells[CHOOSE j \in ReadColumns : ColumnOf[j] = f].text)
                      ELSE result[f]]
    IN  IF complete /\ first_row.dblp # NoHref
        THEN [r1 EXCEPT !.dblp_link = first_row.dblp]
        ELSE r1

\* result.update({...}) and the optional dblp link.  The dict literal is built
\* before update() runs: a missing cell raises and leaves result untouched.
ReadFirstRow(result, first_row) ==
    LET n == Len(first_row.cells)
    IN  IF \E j \in ReadColumns : j > n
        THEN result
        ELSE LET r1 == [f \in DOMAIN result |->
                          IF f = "found" THEN TRUE
                          ELSE IF \E j \in ReadColumns : ColumnOf[j] = f
                               THEN Strip(first_row.cells[CHOOSE j \in ReadColumns :
                                                             ColumnOf[j] = f].text)
                               ELSE result[f]]
             IN  IF first_row.dblp # NoHref
                 THEN [r1 EXCEPT !.dblp_link = first_row.dblp]
                 ELSE r1

\* [raised |-> an exception left the function, result |-> the value returned]
get_core_ranking(conference_name, web) ==
    IF ~web.nav THEN [raised |-> TRUE, result |-> DefaultResult]
    ELSE IF web.wait # "ok" THEN [raised |-> FALSE, result |-> DefaultResult]
    ELSE IF web.zero THEN [raised |-> FALSE, result |-> DefaultResult]
    ELSE IF web.rows = <<>> THEN [raised |-> FALSE, result |-> DefaultResult]
    ELSE [raised |-> FALSE, result |-> ReadFirstRow(DefaultResult, web.rows[1])]

ResultRow(name, rank, dblp) ==
    [cells |-> <<Cell(name \o <<" ", "Conference">>), Cell(name), Cell(<<"CORE2023">>),
                 Cell(<<rank, " ">>), Cell(<<>>), Cell(<<"view">>), Cell(<<"4611">>),
                 Cell(<<>>), Cell(<<"4.5">>)>>,
     dblp |-> dblp]

ShortRow(name) == [cells |-> SubSeq(ResultRow(name, "B", NoHref).cells, 1, 6), dblp |-> NoHref]

Web(nav, wait, zero, rows) == [nav |-> nav, wait |-> wait, zero |-> zero, rows |-> rows]

WebOutcomes(name) ==
    {Web(FALSE, "ok", FALSE, <<>>)}
    \cup {Web(TRUE, w, FALSE, <<>>) : w \in {"search", "submit", "table"}}
    \cup {Web(TRUE, "ok", TRUE, <<>>),
          Web(TRUE, "ok", FALSE, <<>>),
          Web(TRUE, "ok", FALSE, <<ShortRow(name)>>),
          Web(TRUE, "ok", FALSE, <<ResultRow(name, "A", NoHref)>>),
          Web(TRUE, "ok", FALSE, <<ResultRow(name, "A", <<"http://dblp/", "x">>),
                                   ResultRow(name, "C", NoHref)>>)}

(***************************************************************************)
(* extract_conference_name                                                 *)
(***************************************************************************)
Get(conf, key, default) == IF key \in DOMAIN conf THEN conf[key] ELSE default

extract_conference_name(conf) ==
    LET title == Get(conf, "page_title", <<>>)
    IN  IF title # <<>>
        THEN IF SplitCount(title, " ") > 1 THEN Strip(SplitHead(title, " ")) ELSE Strip(title)
        ELSE SplitHead(Get(conf, "event_name", <<>>), " ")

(***************************************************************************)
(* The ranking cache and its file.  open(path, "w") truncates the file;    *)
(* json.dump then writes the mapping.  json.load raises on a file that is  *)
(* not one complete JSON document.                                         *)
(***************************************************************************)
EmptyCache == <<>>

File(state, content) == [state |-> state, content |-> content]

\* [raised |-> json.load raised, cache |-> the mapping returned]
load_ranking_cache(file) ==
    IF file.state = "absent" THEN [raised |-> FALSE, cache |-> EmptyCache]
    ELSE IF file.state = "ok" THEN [raised |-> FALSE, cache |-> file.content]
    ELSE [raised |-> TRUE, cache |-> EmptyCache]

\* a bug: every record looked up again
InCacheNever(conf_name, cache) == FALSE

\* the insertion into the cache left out
PutNothing(cache, conf_name, core_data) == cache

\* conf_name in ranking_cache
InCache(conf_name, cache) == conf_name \in DOMAIN cache

\* ranking_cache[conf_name] = core_data
Put(cache, conf_name, core_data) ==
    [k \in DOMAIN cache \cup {conf_name} |-> IF k = conf_name THEN core_data ELSE cache[k]]

\* records as gather_events writes them (the fields enrichment reads)
ConfPool ==
    {[event_name |-> <<"AAAI", " ", "2025">>, page_title |-> <<"AAAI", " ", "2025", " ", ":">>],
     [event_name |-> <<"ICML", " ", "2025">>, error |-> <<"timeout">>],
     [event_name |-> <<"Intl", " ", "ML">>, page_title |-> <<"ICML">>]}

OldRecord == [DefaultResult EXCEPT !.title = <<"AAAI">>, !.rank = <<"A*">>, !.found = TRUE]

InitialFiles ==
    {File("absent", EmptyCache), File("corrupt", EmptyCache), File("ok", EmptyCache),
     File("ok", [k \in {<<"AAAI">>} |-> OldRecord])}

(***************************************************************************)
(* State.                                                                  *)
(***************************************************************************)
VARIABLES
    \* process_data_table applied to one page
    tbl,            \* the page's table
    events,         \* the list it returns
    tpc,            \* "call" before the call, "done" after, "off" elsewhere
    \* format_deadline applied to one text, and again to its result
    deadline_in,
    deadline_once,
    deadline_twice,
    dpc,            \* "call" before the calls, "done" after, "off" elsewhere
    \* gather_events.main
    site,           \* the listing site
    max_pages,      \* int(os.environ["MAX_PAGES"])
    page_count,
    cur,            \* the page the browser shows
    all_events,
    visited,        \* the pages handed to process_data_table, in order
    clicks,         \* calls of click_next_page
    didx,           \* position of the detail loop in all_events
    all_events_details,
    scrapes,        \* the calls of scrape_event_details: [url, outcome], in order
    output_file,    \* <<>> until written, then <<the list written>>
    gdriver,        \* "open" or "quit"
    gpc,
    \* rate_events.enrich_conferences
    conferences,    \* the records of output.json; core_data is added in place
    ranking_cache,  \* the in-memory cache: key -> ranking record
    cache_file,     \* ranking_cache.json on disk
    loaded,         \* what load_ranking_cache returned
    idx,            \* position of `for conf in conferences`
    lookups,        \* the names given to get_core_ranking, in order
    last_call,      \* <<>> or <<[web, result]>>: the last get_core_ranking that returned
    sleeps,         \* calls of time.sleep(2)
    edriver,        \* "none", "open" or "quit"
    enriched_file,  \* <<>> until written, then <<the list written>>
    error,          \* the exception that ended the run, "none" otherwise
    pc

tvars == <<tbl, events, tpc>>
dvars == <<deadline_in, deadline_once, deadline_twice, dpc>>
gvars == <<site, max_pages, page_count, cur, all_events, visited, clicks, didx,
           all_events_details, scrapes, output_file, gdriver, gpc>>
evars == <<conferences, ranking_cache, cache_file, loaded, idx, lookups, last_call, sleeps,
           edriver, enriched_file, error, pc>>

Tables == {[found |-> f, rows |-> MkRows(ks)] : f \in BOOLEAN, ks \in SeqsUpTo(RowKinds, MaxRows)}

TableInit ==
    /\ tbl \in Tables
    /\ events = <<>>
    /\ tpc = "call"

TableIdle ==
    /\ tbl = [found |-> FALSE, rows |-> <<>>]
    /\ events = <<>>
    /\ tpc = "off"

\* events = process_data_table(driver)
CallProcessDataTable ==
    /\ tpc = "call"
    /\ events' = process_data_table(tbl)
    /\ tpc' = "done"
    /\ UNCHANGED <<tbl, dvars, gvars, evars>>

(***************************************************************************)
(* format_deadline on one text: a core text between two short paddings.    *)
(***************************************************************************)
PadTokens == {" ", "(", "x"}

DeadlineCores ==
    {NA,
     <<"Jan", " ", "5", ",", " ", "2025">>,
     <<"Jan", " ", " ", "05", ",", " ", "2025">>,
     <<"Feb", " ", "31", ",", " ", "2025">>,
     <<"Jan", " ", "5", ",", "2025">>,
     <<"05", "/", "01", "/", "25">>,
     <<"TBD">>,
     <<>>}

DeadlineTexts ==
    {pre \o core \o post : pre \in SeqsUpTo(PadTokens, MaxPad), core \in DeadlineCores,
                            post \in SeqsUpTo(PadTokens, MaxPad)}

DeadlineInit ==
    /\ deadline_in \in DeadlineTexts
    /\ deadline_once = <<>>
    /\ deadline_twice = <<>>
    /\ dpc = "call"

DeadlineIdle ==
    /\ deadline_in = <<>>
    /\ deadline_once = <<>>
    /\ deadline_twice = <<>>
    /\ dpc = "off"

\* format_deadline(s), then format_deadline of the result
CallFormatDeadline ==
    /\ dpc = "call"
    /\ deadline_once' = format_deadline(deadline_in)
    /\ deadline_twice' = format_deadline(format_deadline(deadline_in))
    /\ dpc' = "done"
    /\ UNCHANGED <<deadline_in, tvars, gvars, evars>>

(***************************************************************************)
(* gather_events.main                                                      *)
(***************************************************************************)
GatherInit ==
    /\ site \in Sites
    /\ max_pages \in 0..MaxCeiling
    /\ page_count = 0
    /\ cur = 1
    /\ all_events = <<>>
    /\ visited = <<>>
    /\ clicks = 0
    /\ didx = 1
    /\ all_events_details = <<>>
    /\ scrapes = <<>>
    /\ output_file = <<>>
    /\ gdriver = "open"
    /\ gpc = "get"

GatherIdle ==
    /\ site = <<>>
    /\ max_pages = 0
    /\ page_count = 0
    /\ cur = 1
    /\ all_events = <<>>
    /\ visited = <<>>
    /\ clicks = 0
    /\ didx = 1
    /\ all_events_details = <<>>
    /\ scrapes = <<>>
    /\ output_file = <<>>
    /\ gdriver = "quit"
    /\ gpc = "off"

\* driver.get(url) loads the first page
GetFirstPage ==
    /\ gpc = "get"
    /\ gpc' = "paginate"
    /\ UNCHANGED <<site, max_pages, page_count, cur, all_events, visited, clicks, didx,
                   all_events_details, scrapes, output_file, gdriver>>
    /\ UNCHANGED <<tvars, dvars, evars>>

\* driver.get(url) raises: the finally clause quits the driver
GetFirstPageFails ==
    /\ gpc = "get"
    /\ gpc' = "aborted"
    /\ gdriver' = "quit"
    /\ UNCHANGED <<site, max_pages, page_count, cur, all_events, visited, clicks, didx,
                   all_events_details, scrapes, output_file>>
    /\ UNCHANGED <<tvars, dvars, evars>>

\* the loop condition written `not click_next_page(driver) or page_count >= max_pages`
PaginateStep_ClickFirst ==
    /\ gpc = "paginate"
    /\ page_count' = page_count + 1
    /\ visited' = Append(visited, cur)
    /\ all_events' = all_events \o process_data_table(PageAt(site, cur).table)
    /\ clicks' = clicks + 1
    /\ cur' = IF click_next_page(site, cur) THEN cur + 1 ELSE cur
    /\ gpc' = IF ~click_next_page(site, cur) \/ page_count' >= max_pages
              THEN "details" ELSE "paginate"
    /\ UNCHANGED <<site, max_pages, didx, all_events_details, scrapes, output_file, gdriver>>
    /\ UNCHANGED <<tvars, dvars, evars>>

\* the page's records put in front of the accumulated list
PaginateStep_Prepend ==
    /\ gpc = "paginate"
    /\ page_count' = page_count + 1
    /\ visited' = Append(visited, cur)
    /\ all_events' = process_data_table(PageAt(site, cur).table) \o all_events
    /\ IF page_count' >= max_pages
       THEN /\ gpc' = "details"
            /\ UNCHANGED <<cur, clicks>>
       ELSE /\ clicks' = clicks + 1
            /\ IF click_next_page(site, cur)
               THEN cur' = cur + 1 /\ gpc' = "paginate"
               ELSE cur' = cur /\ gpc' = "details"
    /\ UNCHANGED <<site, max_pages, didx, all_events_details, scrapes, output_file, gdriver>>
    /\ UNCHANGED <<tvars, dvars, evars>>

\* one iteration of the while True loop
PaginateStep ==
    /\ gpc = "paginate"
    /\ page_count' = page_count + 1
    /\ visited' = Append(visited, cur)
    /\ all_events' = all_events \o process_data_table(PageAt(site, cur).table)
    /\ IF page_count' >= max_pages
       THEN /\ gpc' = "details"
            /\ UNCHANGED <<cur, clicks>>
       ELSE /\ clicks' = clicks + 1
            /\ IF click_next_page(site, cur)
               THEN cur' = cur + 1 /\ gpc' = "paginate"
               ELSE cur' = cur /\ gpc' = "details"
    /\ UNCHANGED <<site, max_pages, didx, all_events_details, scrapes, output_file, gdriver>>
    /\ UNCHANGED <<tvars, dvars, evars>>

\* one iteration of `for event in all_events` on an event that has a link
DetailStep ==
    /\ gpc = "details"
    /\ didx <= Len(all_events)
    /\ all_events[didx].link # NoHref /\ all_events[didx].link # NA
    /\ \E outcome \in ScrapeOutcomes :
          /\ scrapes' = Append(scrapes, [url |-> all_events[didx].link, outcome |-> outcome])
          /\ all_events_details' =
                Append(all_events_details,
                       Merge(all_events[didx],
                             scrape_event_details(all_events[didx].link, outcome)))
    /\ didx' = didx + 1
    /\ UNCHANGED <<site, max_pages, page_count, cur, all_events, visited, clicks,
                   output_file, gdriver, gpc>>
    /\ UNCHANGED <<tvars, dvars, evars>>

\* one iteration on an event whose link is empty or "N/A"
DetailSkip ==
    /\ gpc = "details"
    /\ didx <= Len(all_events)
    /\ ~(all_events[didx].link # NoHref /\ all_events[didx].link # NA)
    /\ didx' = didx + 1
    /\ UNCHANGED <<site, max_pages, page_count, cur, all_events, visited, clicks,
                   all_events_details, scrapes, output_file, gdriver, gpc>>
    /\ UNCHANGED <<tvars, dvars, evars>>

\* json.dumps(all_events_details) written to OUTPUT_FILE and to the cache copy
WriteOutput ==
    /\ gpc = "details"
    /\ didx > Len(all_events)
    /\ output_file' = <<all_events_details>>
    /\ gpc' = "finally"
    /\ UNCHANGED <<site, max_pages, page_count, cur, all_events, visited, clicks, didx,
                   all_events_details, scrapes, gdriver>>
    /\ UNCHANGED <<tvars, dvars, evars>>

\* finally: driver.quit()
GatherQuit ==
    /\ gpc = "finally"
    /\ gdriver' = "quit"
    /\ gpc' = "done"
    /\ UNCHANGED <<site, max_pages, page_count, cur, all_events, visited, clicks, didx,
                   all_events_details, scrapes, output_file>>
    /\ UNCHANGED <<tvars, dvars, evars>>

(***************************************************************************)
(* rate_events.enrich_conferences                                          *)
(***************************************************************************)
EnrichInit ==
    /\ conferences \in SeqsUpTo(ConfPool, MaxConfs)
    /\ ranking_cache = EmptyCache
    /\ cache_file \in InitialFiles
    /\ loaded = EmptyCache
    /\ idx = 1
    /\ lookups = <<>>
    /\ last_call = <<>>
    /\ sleeps = 0
    /\ edriver = "none"
    /\ enriched_file = <<>>
    /\ error = "none"
    /\ pc = "load"

EnrichIdle ==
    /\ conferences = <<>>
    /\ ranking_cache = EmptyCache
    /\ cache_file = File("absent", EmptyCache)
    /\ loaded = EmptyCache
    /\ idx = 1
    /\ lookups = <<>>
    /\ last_call = <<>>
    /\ sleeps = 0
    /\ edriver = "none"
    /\ enriched_file = <<>>
    /\ error = "none"
    /\ pc = "off"

\* ranking_cache = load_ranking_cache() or {}, then the driver is created
LoadCache ==
    /\ pc = "load"
    /\ LET l == load_ranking_cache(cache_file)
       IN  IF l.raised
           THEN /\ pc' = "fatal"
                /\ error' = "JSONDecodeError"
                /\ UNCHANGED <<ranking_cache, loaded, edriver>>
           ELSE /\ ranking_cache' = l.cache
                /\ loaded' = l.cache
                /\ edriver' = "open"
                /\ pc' = "loop"
                /\ UNCHANGED error
    /\ UNCHANGED <<conferences, cache_file, idx, lookups, last_call, sleeps, enriched_file>>
    /\ UNCHANGED <<tvars, dvars, gvars>>

\* the record's key is cached: attach the cached record
UseCached ==
    /\ pc = "loop"
    /\ idx <= Len(conferences)
    /\ LET conf_name == extract_conference_name(conferences[idx])
       IN  /\ InCache(conf_name, ranking_cache)
           /\ conferences' = [conferences EXCEPT
                  ![idx] = Merge(@, [core_data |-> ranking_cache[conf_name]])]
    /\ idx' = idx + 1
    /\ UNCHANGED <<ranking_cache, cache_file, loaded, lookups, last_call, sleeps, edriver,
                   enriched_file, error, pc>>
    /\ UNCHANGED <<tvars, dvars, gvars>>

\* the record's key is not cached: get_core_ranking, attach, insert
FetchRanking ==
    /\ pc = "loop"
    /\ idx <= Len(conferences)
    /\ LET conf_name == extract_conference_name(conferences[idx])
       IN  /\ ~InCache(conf_name, ranking_cache)
           /\ lookups' = Append(lookups, conf_name)
           /\ \E web \in WebOutcomes(conf_name) :
                LET got == get_core_ranking(conf_name, web)
                IN  IF got.raised
                    THEN /\ pc' = "fatal"
                         /\ error' = "WebDriverException"
                         /\ UNCHANGED <<conferences, ranking_cache, last_call>>
                    ELSE /\ conferences' = [conferences EXCEPT
                                ![idx] = Merge(@, [core_data |-> got.result])]
                         /\ ranking_cache' = Put(ranking_cache, conf_name, got.result)
                         /\ last_call' = <<[web |-> web, result |-> got.result]>>
                         /\ pc' = "store_open"
                         /\ UNCHANGED error
    /\ UNCHANGED <<cache_file, loaded, idx, sleeps, edriver, enriched_file>>
    /\ UNCHANGED <<tvars, dvars, gvars>>

\* store_ranking_cache: open(cache_file, "w") truncates the file
StoreOpen ==
    /\ pc \in {"store_open", "final_open"}
    /\ cache_file' = File("partial", EmptyCache)
    /\ pc' = IF pc = "store_open" THEN "store_dump" ELSE "final_dump"
    /\ UNCHANGED <<conferences, ranking_cache, loaded, idx, lookups, last_call, sleeps,
                   edriver, enriched_file, error>>
    /\ UNCHANGED <<tvars, dvars, gvars>>

\* store_ranking_cache: json.dump(cache, file) and the file is closed
StoreDump ==
    /\ pc \in {"store_dump", "final_dump"}
    /\ cache_file' = File("ok", ranking_cache)
    /\ pc' = IF pc = "store_dump" THEN "sleep" ELSE "write"
    /\ UNCHANGED <<conferences, ranking_cache, loaded, idx, lookups, last_call, sleeps,
                   edriver, enriched_file, error>>
    /\ UNCHANGED <<tvars, dvars, gvars>>

\* time.sleep(2), end of the iteration
Sleep ==
    /\ pc = "sleep"
    /\ sleeps' = sleeps + 1
    /\ idx' = idx + 1
    /\ pc' = "loop"
    /\ UNCHANGED <<conferences, ranking_cache, cache_file, loaded, lookups, last_call,
                   edriver, enriched_file, error>>
    /\ UNCHANGED <<tvars, dvars, gvars>>

\* the loop is over: driver.quit()
EnrichQuit ==
    /\ pc = "loop"
    /\ idx > Len(conferences)
    /\ edriver' = "quit"
    /\ pc' = "final_open"
    /\ UNCHANGED <<conferences, ranking_cache, cache_file, loaded, idx, lookups, last_call,
                   sleeps, enriched_file, error>>
    /\ UNCHANGED <<tvars, dvars, gvars>>

\* json.dump(conferences) to output_path
WriteEnriched ==
    /\ pc = "write"
    /\ enriched_file' = <<conferences>>
    /\ pc' = "done"
    /\ UNCHANGED <<conferences, ranking_cache, cache_file, loaded, idx, lookups, last_call,
                   sleeps, edriver, error>>
    /\ UNCHANGED <<tvars, dvars, gvars>>

Running == {"load", "loop", "store_open", "store_dump", "sleep", "final_open", "final_dump",
            "write"}

\* the process is interrupted (killed, power loss) wherever it is
Interrupt ==
    /\ pc \in Running
    /\ pc' = "crashed"
    /\ error' = pc
    /\ UNCHANGED <<conferences, ranking_cache, cache_file, loaded, idx, lookups, last_call,
                   sleeps, edriver, enriched_file>>
    /\ UNCHANGED <<tvars, dvars, gvars>>

vars == <<tvars, dvars, gvars, evars>>

InitTable == TableInit /\ DeadlineIdle /\ GatherIdle /\ EnrichIdle

InitDeadline == TableIdle /\ DeadlineInit /\ GatherIdle /\ EnrichIdle

InitGather == TableIdle /\ DeadlineIdle /\ GatherInit /\ EnrichIdle

Init == TableIdle /\ DeadlineIdle /\ GatherIdle /\ EnrichInit

\* either program of the pipeline, run on its own
InitPipeline == InitGather \/ Init

NextTable == CallProcessDataTable

NextDeadline == CallFormatDeadline

NextGather ==
    \/ GetFirstPage
    \/ GetFirstPageFails
    \/ PaginateStep
    \/ DetailStep
    \/ DetailSkip
    \/ WriteOutput
    \/ GatherQuit

Next ==
    \/ LoadCache
    \/ UseCached
    \/ FetchRanking
    \/ StoreOpen
    \/ StoreDump
    \/ Sleep
    \/ EnrichQuit
    \/ WriteEnriched
    \/ Interrupt

\* process_data_table on one page
SpecTable == InitTable /\ [][NextTable]_vars

\* format_deadline on one text
SpecDeadline == InitDeadline /\ [][NextDeadline]_vars

\* gather_events.main
SpecGather == InitGather /\ [][NextGather]_vars

\* rate_events.enrich_conferences
Spec == Init /\ [][Next]_vars

NextPipeline ==
    \/ GetFirstPage
    \/ GetFirstPageFails
    \/ PaginateStep
    \/ DetailStep
    \/ DetailSkip
    \/ WriteOutput
    \/ GatherQuit
    \/ LoadCache
    \/ UseCached
    \/ FetchRanking
    \/ StoreOpen
    \/ StoreDump
    \/ Sleep
    \/ EnrichQuit
    \/ WriteEnriched
    \/ Interrupt

\* main.py: gather_events.main and rate_events.enrich_conferences, each on its own
SpecPipeline == InitPipeline /\ [][NextPipeline]_vars

(***************************************************************************)
(* Properties.                                                             *)
(***************************************************************************)
PaginationOver == gpc \in {"details", "finally", "done"}

AllNextWork == \A p \in 1..Len(site) : site[p].next = "ok"

\* C1: with N pages that all have a working "next" control and a ceiling
\* C < N, the pagination loop hands exactly C pages to process_data_table.
C1_ExactlyCeilingPages ==
    (PaginationOver /\ AllNextWork /\ max_pages < Len(site)) => Len(visited) = max_pages

ConfKeys == {extract_conference_name(conferences[i]) : i \in 1..Len(conferences)}

\* C2: within one run the resolver is called at most once per key, and the
\* number of calls is at most the number of distinct keys that were not in the
\* loaded cache.
C2_OneLookupPerKey ==
    /\ \A i, j \in 1..Len(lookups) : lookups[i] = lookups[j] => i = j
    /\ Len(lookups) <= Cardinality(ConfKeys \ DOMAIN loaded)

\* a finished run in which two records shared a key and one lookup served both
C2_Witness ==
    /\ pc = "done"
    /\ loaded = EmptyCache
    /\ Len(lookups) >= 1
    /\ Len(lookups) < Len(conferences)

CacheLoaded == pc \notin {"load", "off"} /\ error \notin {"load", "JSONDecodeError"}

KeepsRecords ==
    \A k \in DOMAIN ranking_cache :
        k \in DOMAIN ranking_cache' /\ ranking_cache'[k] = ranking_cache[k]

FileAgrees ==
    (CacheLoaded /\ cache_file.state = "ok") =>
        /\ \A k \in DOMAIN cache_file.content :
              k \in DOMAIN ranking_cache /\ ranking_cache[k] = cache_file.content[k]
        /\ \A k \in DOMAIN loaded :
              k \in DOMAIN cache_file.content /\ cache_file.content[k] = loaded[k]

\* C3: the cache is write-once per key: no step changes or removes the record
\* a key maps to in memory, and whenever the file holds a complete mapping its
\* records are those of the in-memory cache, the loaded ones included.
C3_CacheWriteOnce == [][KeepsRecords]_vars /\ []FileAgrees

\* a finished run that looked a new key up and also met a key loaded from disk
C3_Witness ==
    /\ pc = "done"
    /\ Len(lookups) >= 1
    /\ \E i \in 1..Len(conferences) :
          /\ extract_conference_name(conferences[i]) \in DOMAIN loaded
          /\ conferences[i].core_data = OldRecord
    /\ cache_file.state = "ok"

\* the lookup whose result was not yet on disk when the run was interrupted
InFlight == IF error \in {"store_open", "store_dump"} THEN {lookups[Len(lookups)]} ELSE {}

\* C4: after an interruption at any point, load_ranking_cache returns every
\* key resolved before it, except at most the lookup in flight.
C4_CrashLosesAtMostInFlight ==
    (pc = "crashed" /\ error # "load") =>
        LET l == load_ranking_cache(cache_file)
        IN  \A k \in DOMAIN ranking_cache \ InFlight :
                ~l.raised /\ k \in DOMAIN l.cache /\ l.cache[k] = ranking_cache[k]

\* C5: loading a missing or corrupt cache file yields an empty mapping and the
\* run goes on to the loop.
C5_LoadNeverFatal ==
    [][(pc = "load" /\ cache_file.state \in {"absent", "corrupt", "partial"}
            /\ pc' # "crashed")
         => (pc' = "loop" /\ ranking_cache' = EmptyCache /\ error' = "none")]_vars

WebFailed(web) == ~web.nav \/ web.wait # "ok"

\* C6: a transport or timeout failure at any step of get_core_ranking is
\* returned as a found=false record and never leaves the function.
C6_LookupFailureContained ==
    /\ error # "WebDriverException"
    /\ (last_call # <<>> /\ WebFailed(last_call[1].web)) => ~last_call[1].result.found

\* C7: a record returned with found=false holds the sentinels in every field.
C7_NotFoundIsAllSentinel ==
    (last_call # <<>> /\ ~last_call[1].result.found) => last_call[1].result = DefaultResult

\* a lookup that failed part-way through reading the first result row
C7_Witness ==
    /\ last_call # <<>>
    /\ last_call[1].web.rows # <<>>
    /\ Len(last_call[1].web.rows[1].cells) < 9
    /\ ~last_call[1].result.found

AtCachedRecord ==
    /\ pc = "loop"
    /\ idx <= Len(conferences)
    /\ extract_conference_name(conferences[idx]) \in DOMAIN ranking_cache

HitStep ==
    (AtCachedRecord /\ pc' # "crashed") =>
        /\ lookups' = lookups
        /\ sleeps' = sleeps
        /\ pc' = "loop"
        /\ idx' = idx + 1
        /\ conferences'[idx].core_data = ranking_cache[extract_conference_name(conferences[idx])]

DelayPerLookup ==
    /\ pc \in {"loop", "final_open", "final_dump", "write", "done"} => sleeps = Len(lookups)
    /\ pc \in {"store_open", "store_dump", "sleep"} => sleeps = Len(lookups) - 1

\* C8: a record whose key is cached gets the cached record with no resolver
\* call and no delay; there is one delay per lookup that returned, made after
\* its result is stored and before the next record.
C8_CachedNoCallNoDelay == [][HitStep]_vars /\ []DelayPerLookup

\* a cached record was just served, after an earlier lookup and its delay
C8_Witness ==
    /\ pc = "loop"
    /\ idx > 2
    /\ sleeps >= 1
    /\ sleeps = Len(lookups)
    /\ sleeps < idx - 1
    /\ "core_data" \in DOMAIN conferences[idx - 1]

NumPairs(t) == (Len(t.rows) - 1) \div 2

\* a header row followed by complete pairs: first row with at least 2 cells,
\* second row with at least 3
WellFormedPage(t) ==
    /\ t.found
    /\ Len(t.rows) % 2 = 1
    /\ \A r \in 1..Len(t.rows) : ~t.rows[r].stale
    /\ \A k \in 1..NumPairs(t) :
          Len(t.rows[2 * k].cells) >= 2 /\ Len(t.rows[2 * k + 1].cells) >= 3

\* C9: a well-formed page yields (rowCount - 1) / 2 records, the j-th taken
\* from the j-th pair.
C9_RecordPerPair ==
    (tpc = "done" /\ WellFormedPage(tbl)) =>
        /\ Len(events) = NumPairs(tbl)
        /\ \A j \in 1..Len(events) :
              /\ events[j].event_name = Strip(tbl.rows[2 * j].cells[1].text)
              /\ events[j].description = Strip(tbl.rows[2 * j].cells[2].text)
              /\ events[j].when = Strip(tbl.rows[2 * j + 1].cells[1].text)

\* a well-formed page of two pairs was processed
C9_Witness == tpc = "done" /\ WellFormedPage(tbl) /\ NumPairs(tbl) = 2 /\ Len(events) = 2

\* C10: every pair of a located table, complete or not (second row missing,
\* fewer than 3 cells in a row), yields one record.
C10_EveryPairYieldsRecord ==
    (tpc = "done" /\ tbl.found /\ \A r \in 1..Len(tbl.rows) : ~tbl.rows[r].stale) =>
        Len(events) = Len(tbl.rows) \div 2

ScrapeFailed(outcome) == outcome \in {"error", "late_error"}

ScrapeErrorsRecorded ==
    /\ Len(all_events_details) = Len(scrapes)
    /\ \A j \in 1..Len(scrapes) :
          /\ ScrapeFailed(scrapes[j].outcome) => "error" \in DOMAIN all_events_details[j]
          /\ all_events_details[j].link = scrapes[j].url

DetailLoopGoesOn == gpc = "details" => gpc' \in {"details", "finally"}

OutputWritten == gpc = "done" => output_file = <<all_events_details>>

\* C11: a failure inside scrape_event_details for one record is contained: the
\* attribute set returned carries an error field, the detail loop goes on with
\* the remaining records and the output file is written.
C11_ScrapeFailureContained ==
    []ScrapeErrorsRecorded /\ [][DetailLoopGoesOn]_vars /\ []OutputWritten

\* a finished run in which a scrape failed and a later one succeeded
C11_Witness ==
    /\ gpc = "done"
    /\ output_file = <<all_events_details>>
    /\ \E j, k \in 1..Len(scrapes) :
          /\ j < k
          /\ ScrapeFailed(scrapes[j].outcome)
          /\ scrapes[k].outcome = "ok"
          /\ "error" \in DOMAIN all_events_details[j]
          /\ "error" \notin DOMAIN all_events_details[k]

\* C12: on every path out of the gathering run and of the enrichment run,
\* normal or by an exception, driver.quit() has been called.
C12_DriverAlwaysReleased ==
    /\ gpc \in {"done", "aborted"} => gdriver = "quit"
    /\ (pc \in {"done", "fatal"} /\ error # "JSONDecodeError") => edriver = "quit"

IsNormalized(s) ==
    /\ Len(s) = 5
    /\ s[1] \in {DayNum(d) : d \in Days}
    /\ s[2] = "/"
    /\ s[3] \in {MonthNum(m) : m \in Months}
    /\ s[4] = "/"
    /\ s[5] \in {YearShort(y) : y \in Years}

\* C13: format_deadline(format_deadline(s)) = format_deadline(s) for every
\* text s; a dd/mm/yy text and "N/A" are returned unchanged.
C13_FormatDeadlineIdempotent ==
    dpc = "done" =>
        /\ deadline_twice = deadline_once
        /\ (deadline_in = NA \/ IsNormalized(deadline_in)) => deadline_once = deadline_in

\* a padded date with a parenthesised suffix was normalized, and normalizing
\* the result again left it as it was
C13_Witness ==
    /\ dpc = "done"
    /\ \E j \in 1..Len(deadline_in) : deadline_in[j] = "("
    /\ IsNormalized(deadline_once)
    /\ deadline_once # deadline_in
    /\ deadline_twice = deadline_once

\* C14: every record extracted by the pagination stage appears exactly once in
\* the persisted collection, records whose link is "N/A" included: as many
\* persisted records as extracted ones.
C14_EveryRecordPersisted ==
    gpc = "done" =>
        /\ Len(output_file[1]) = Len(all_events)
        /\ \A j \in 1..Len(all_events) :
              output_file[1][j].event_name = all_events[j].event_name

CeilingWins == page_count' >= max_pages => (clicks' = clicks /\ cur' = cur)

\* C15: once the visited-page count has reached the ceiling, click_next_page
\* is not invoked and no further page is loaded, even if one is reachable.
C15_CeilingBeforeNextLink == [][CeilingWins]_vars

\* pagination stopped at a ceiling of at least 2 on a page whose "next" control
\* works, after one click per earlier page
C15_Witness ==
    /\ gpc = "details"
    /\ max_pages >= 2
    /\ page_count = max_pages
    /\ click_next_page(site, cur)
    /\ clicks = page_count - 1
    /\ cur = page_count

Skipped(t) == ~t.found \/ Len(t.rows) < 3

SkipStep ==
    (gpc = "paginate" /\ Skipped(PageAt(site, cur).table)) =>
        /\ all_events' = all_events
        /\ visited' = Append(visited, cur)
        /\ page_count' = page_count + 1
        /\ gpc' \in {"paginate", "details"}
        /\ page_count' < max_pages =>
              /\ clicks' = clicks + 1
              /\ click_next_page(site, cur) => (cur' = cur + 1 /\ gpc' = "paginate")
        /\ page_count' >= max_pages => (clicks' = clicks /\ gpc' = "details")

\* C16: a page whose table is not found or has fewer than 3 rows contributes
\* no record, leaves the accumulated records as they are, and is followed by
\* the advance step (ceiling check, then next-link check).
C16_OnlyThePageIsSkipped == [][SkipStep]_vars

\* a run over three pages: the second was skipped, the first and the third
\* gave their records
C16_Witness ==
    /\ gpc = "done"
    /\ visited = <<1, 2, 3>>
    /\ ~Skipped(PageAt(site, 1).table)
    /\ Skipped(PageAt(site, 2).table)
    /\ PageAt(site, 2).table.found
    /\ ~Skipped(PageAt(site, 3).table)
    /\ all_events = process_data_table(PageAt(site, 1).table)
                       \o process_data_table(PageAt(site, 3).table)
    /\ Len(all_events) = 2

\* C17: every attribute set returned by scrape_event_details, and so every
\* merged record, holds all nine detail keys, also when extraction failed.
C17_AllDetailKeysPresent ==
    \A j \in 1..Len(all_events_details) :
        \A k \in 1..Len(DetailKeys) : DetailKeys[k] \in DOMAIN all_events_details[j]

RECURSIVE RecordsOf(_, _)
RecordsOf(st, pages) ==
    IF pages = <<>> THEN <<>>
    ELSE process_data_table(PageAt(st, Head(pages)).table) \o RecordsOf(st, Tail(pages))

HasLink(event) == event.link # NoHref /\ event.link # NA

RECURSIVE Linked(_)
Linked(evs) ==
    IF evs = <<>> THEN <<>>
    ELSE (IF HasLink(Head(evs)) THEN <<Head(evs)>> ELSE <<>>) \o Linked(Tail(evs))

GatherInOrder ==
    /\ visited = [j \in 1..Len(visited) |-> j]
    /\ all_events = RecordsOf(site, visited)
    /\ LET handled == Linked(SubSeq(all_events, 1, didx - 1))
       IN  /\ Len(all_events_details) = Len(handled)
           /\ \A j \in 1..Len(handled) :
                 /\ scrapes[j].url = handled[j].link
                 /\ all_events_details[j].event_name = handled[j].event_name
    /\ output_file # <<>> => output_file[1] = all_events_details

EnrichInOrder ==
    /\ \A i \in 1..Len(conferences) :
          "core_data" \in DOMAIN conferences[i] =>
              i < idx \/ (i = idx /\ pc \in {"store_open", "store_dump", "sleep", "crashed"})
    /\ \A i \in 1..Len(conferences) :
          (i < idx /\ pc # "off") => "core_data" \in DOMAIN conferences[i]
    /\ enriched_file # <<>> => enriched_file[1] = conferences

RecordsStayInPlace ==
    /\ Len(conferences') = Len(conferences)
    /\ \A i \in 1..Len(conferences) :
          conferences'[i].event_name = conferences[i].event_name
    /\ Len(all_events) <= Len(all_events')
    /\ SubSeq(all_events', 1, Len(all_events)) = all_events
    /\ Len(all_events_details) <= Len(all_events_details')
    /\ SubSeq(all_events_details', 1, Len(all_events_details)) = all_events_details
    /\ idx' \in {idx, idx + 1}
    /\ didx' \in {didx, didx + 1}

\* C18: pages are visited once each, in order; their records are appended in
\* page order and row order; the detail loop and the ranking loop process and
\* emit the records in that order.
C18_OrderPreserved == []GatherInOrder /\ []EnrichInOrder /\ [][RecordsStayInPlace]_vars

\* a finished gathering run whose records come from two different pages, both
\* followed to their detail page
C18_Witness ==
    /\ gpc = "done"
    /\ Len(visited) >= 2
    /\ Len(all_events) >= 2
    /\ all_events[1].event_name # all_events[2].event_name
    /\ Len(output_file[1]) = 2
    /\ output_file[1][1].event_name = all_events[1].event_name
    /\ output_file[1][2].event_name = all_events[2].event_name

CoreDataIsCacheEntry ==
    \A i \in 1..Len(conferences) :
        "core_data" \in DOMAIN conferences[i] =>
            LET key == extract_conference_name(conferences[i])
            IN  /\ key \in DOMAIN ranking_cache
                /\ conferences[i].core_data = ranking_cache[key]

PersistedCacheComplete ==
    pc = "done" =>
        /\ cache_file.state = "ok"
        /\ \A i \in 1..Len(conferences) :
              LET key == extract_conference_name(conferences[i])
              IN  /\ key \in DOMAIN cache_file.content
                  /\ cache_file.content[key] = conferences[i].core_data

\* C19: a processed record's core_data is the cache entry under the record's
\* key, whatever the lookup returned; records sharing a key carry the same
\* ranking record; at normal completion the cache on disk holds the key of
\* every record.
C19_CoreDataIsCacheEntry ==
    /\ CoreDataIsCacheEntry
    /\ \A i, j \in 1..Len(conferences) :
          ("core_data" \in DOMAIN conferences[i] /\ "core_data" \in DOMAIN conferences[j]
              /\ extract_conference_name(conferences[i]) = extract_conference_name(conferences[j]))
          => conferences[i].core_data = conferences[j].core_data
    /\ PersistedCacheComplete

\* a finished run in which two records shared a key whose lookup came back
\* with found = false
C19_Witness ==
    /\ pc = "done"
    /\ \E i, j \in 1..Len(conferences) :
          /\ i < j
          /\ extract_conference_name(conferences[i]) = extract_conference_name(conferences[j])
          /\ ~conferences[i].core_data.found
          /\ conferences[j].core_data = conferences[i].core_data
          /\ extract_conference_name(conferences[i]) \notin DOMAIN loaded

=============================================================================
